---- MODULE Spec2Model ----
(***************************************************************************)
(* Model of DownloadMedia.download_media                                   *)
(* (pyrogram/client/methods/messages/download_media.py).                   *)
(*                                                                         *)
(* Representation.                                                         *)
(*   - Python None is the empty tuple, a present value v is <<v>>.         *)
(*   - A byte string is a sequence of numbers 0..255.                      *)
(*   - A text string (file name, path) is a sequence of string tokens in   *)
(*     which the token "/" is the path separator; "" is <<>>.              *)
(*   - A file id is a sequence of base64 digits 0..63; the number          *)
(*     BadSymbol stands for a character outside the alphabet.              *)
(*   - download_media is a coroutine: everything up to `await done.wait()` *)
(*     runs without yielding to the event loop, so it is one action.       *)
(***************************************************************************)
EXTENDS Integers, Sequences, FiniteSets, TLC

VARIABLES
    args,     \* per call: the arguments of download_media
    pc,       \* per call: "start", "waiting", "returned" or "raised"
    err,      \* per call: the exception raised (NoExc if none)
    result,   \* per call: the value returned
    local,    \* per call: the references held in the locals done and path
    puts,     \* per call: number of download_queue.put_nowait calls made
    events,   \* heap: the asyncio.Event objects (TRUE when set)
    slots,    \* heap: the one-element lists, by their element
    reqs,     \* every tuple ever put on download_queue
    queue,    \* download_queue: indices into reqs
    wstate    \* per request: what the worker has done with it

vars == <<args, pc, err, result, local, puts, events, slots, reqs, queue, wstate>>

None == <<>>
Some(v) == <<v>>
IsNone(o) == Len(o) = 0
Val(o) == o[1]

\* Bounds of the checked instances.
NumCalls == 2
MaxTag == 15

Range(s) == {s[k] : k \in DOMAIN s}

Take(s, n) == SubSeq(s, 1, IF n < Len(s) THEN n ELSE Len(s))

Drop(s, n) == SubSeq(s, n + 1, Len(s))

(***************************************************************************)
(* utils.decode: stage 1 of the identifier decoding, the reversal of the   *)
(* URL-safe, padding-tolerant base64 text encoding.                        *)
(***************************************************************************)
BadSymbol == 64

RECURSIVE B64Bytes(_)
B64Bytes(t) ==
    IF Len(t) < 2 THEN <<>>
    ELSE LET b1 == t[1] * 4 + (t[2] \div 16)
         IN  IF Len(t) = 2 THEN <<b1>>
             ELSE LET b2 == (t[2] % 16) * 16 + (t[3] \div 4)
                  IN  IF Len(t) = 3 THEN <<b1, b2>>
                      ELSE <<b1, b2, (t[3] % 4) * 64 + t[4]>> \o B64Bytes(Drop(t, 4))

\* [ok |-> TRUE, bytes |-> b] or [ok |-> FALSE, exc |-> "binascii.Error"]
decode(s) ==
    IF (\E k \in DOMAIN s : s[k] = BadSymbol) \/ Len(s) % 4 = 1
    THEN [ok |-> FALSE, exc |-> "binascii.Error", bytes |-> <<>>]
    ELSE [ok |-> TRUE, exc |-> "none", bytes |-> B64Bytes(s)]

\* The encoder that issued the identifiers (unpadded); builds the inputs.
RECURSIVE B64Text(_)
B64Text(b) ==
    IF Len(b) = 0 THEN <<>>
    ELSE LET s1 == b[1] \div 4
         IN  IF Len(b) = 1 THEN <<s1, (b[1] % 4) * 16>>
             ELSE LET s2 == (b[1] % 4) * 16 + (b[2] \div 16)
                  IN  IF Len(b) = 2 THEN <<s1, s2, (b[2] % 16) * 4>>
                      ELSE <<s1, s2, (b[2] % 16) * 4 + (b[3] \div 64), b[3] % 64>>
                           \o B64Text(Drop(b, 3))

(***************************************************************************)
(* struct.unpack with a little-endian ("<") format: no padding, signed     *)
(* two's-complement integers.  Magnitudes are evaluated from the most      *)
(* significant byte down, so small values never overflow the checker.      *)
(***************************************************************************)
RECURSIVE Magnitude(_)
Magnitude(b) ==
    IF Len(b) = 0 THEN 0 ELSE b[1] + 256 * Magnitude(Drop(b, 1))

Complement(b) == [k \in DOMAIN b |-> 255 - b[k]]

SignedLE(b) ==
    IF b[Len(b)] >= 128 THEN 0 - (Magnitude(Complement(b)) + 1) ELSE Magnitude(b)

\* width in bytes of one format character
Width(c) == CASE c = "i" -> 4 [] c = "q" -> 8 [] c = "b" -> 1 [] c = "c" -> 1

RECURSIVE calcsize(_)
calcsize(fmt) == IF Len(fmt) = 0 THEN 0 ELSE Width(fmt[1]) + calcsize(Drop(fmt, 1))

\* "c" yields the byte itself (a bytes object of length 1), the others a number
Field(c, b) == IF c = "c" THEN b[1] ELSE SignedLE(b)

RECURSIVE Fields(_, _)
Fields(fmt, b) ==
    IF Len(fmt) = 0 THEN <<>>
    ELSE <<Field(fmt[1], Take(b, Width(fmt[1])))>>
         \o Fields(Drop(fmt, 1), Drop(b, Width(fmt[1])))

\* [ok |-> TRUE, vals |-> tuple] or struct.error when the length is not exact
unpack(fmt, b) ==
    IF Len(b) # calcsize(fmt)
    THEN [ok |-> FALSE, vals |-> <<>>]
    ELSE [ok |-> TRUE, vals |-> Fields(fmt, b)]

(***************************************************************************)
(* FileData (pyrogram.client.ext): every field is a keyword argument that  *)
(* defaults to None.                                                       *)
(***************************************************************************)
FileDataFields ==
    {"media_type", "dc_id", "document_id", "access_hash", "thumb_size", "peer_id",
     "volume_id", "local_id", "is_big", "file_size", "mime_type", "file_name", "date"}

FileData(kwargs) ==
    [f \in FileDataFields |-> IF f \in DOMAIN kwargs THEN kwargs[f] ELSE None]

\* lines 127-128: the fields of data that are not None, as keyword arguments
get_existing_attributes(data) ==
    [f \in {g \in FileDataFields : ~IsNone(data[g])} |-> data[f]]

\* dict merge of FileData(**get_existing_attributes(), k1=v1, ...)
Merge(d1, d2) ==
    [f \in (DOMAIN d1) \cup (DOMAIN d2) |-> IF f \in DOMAIN d2 THEN d2[f] ELSE d1[f]]

(***************************************************************************)
(* Exceptions: [type, msg]; NoExc is normal completion.                    *)
(***************************************************************************)
Exc(t, m) == [type |-> t, msg |-> m]
NoExc == Exc("none", "")
error_message == "This message doesn't contain any downloadable media"
FileIdInvalid == Exc("FileIdInvalid", "")

available_media ==
    <<"audio", "document", "photo", "sticker", "animation", "video", "voice", "video_note">>

\* lines 100-109: the media a reference designates.  media is None, or
\* <<m>> with m.isstr telling a plain file id string from a media object.
FirstKind(message) ==
    CHOOSE k \in DOMAIN available_media :
        /\ ~IsNone(message.attrs[available_media[k]])
        /\ \A j \in 1..(k - 1) : IsNone(message.attrs[available_media[j]])

select_media(message) ==
    IF message.kind = "Message"
    THEN IF \A k \in DOMAIN available_media : IsNone(message.attrs[available_media[k]])
         THEN [exc |-> Exc("ValueError", error_message), media |-> None]
         ELSE [exc |-> NoExc, media |-> message.attrs[available_media[FirstKind(message)]]]
    ELSE [exc |-> NoExc, media |-> message.media]

\* lines 111-125: the file id and the first FileData
read_media(media) ==
    IF IsNone(media)
    THEN [exc |-> Exc("AttributeError", "file_id"), file_id_str |-> <<>>,
          data |-> FileData(<<>>)]
    ELSE LET m == Val(media)
         IN  IF m.isstr
             THEN [exc |-> NoExc, file_id_str |-> m.file_id, data |-> FileData(<<>>)]
             ELSE [exc |-> NoExc, file_id_str |-> m.file_id,
                   data |-> FileData(
                       [file_name |-> IF m.has_file_name THEN m.file_name ELSE Some(<<>>),
                        file_size |-> m.file_size,
                        mime_type |-> m.mime_type,
                        date |-> m.date])]

(***************************************************************************)
(* lines 131-171: the body of the try block.                               *)
(***************************************************************************)
PhotoTags == {0, 2, 14}
DocumentTags == {3, 4, 5, 8, 9, 10, 13}

\* line 132: decoded[0] is the first byte of the payload
media_type_of(decoded) == decoded[1]

\* bytes.decode() of one byte: UTF-8 accepts it iff it is ASCII
Utf8Ok(byte) == byte < 128

\* lines 138-146: keyword arguments of the tag 1 variant
chat_photo_fields(media_type, vals) ==
    [media_type |-> Some(media_type),
     dc_id |-> Some(vals[2]),
     peer_id |-> Some(vals[3]),
     volume_id |-> Some(vals[4]),
     local_id |-> Some(vals[5]),
     is_big |-> Some(vals[6] # 0)]

\* lines 151-158: keyword arguments of the variant of tags 0, 2, 14
photo_fields(media_type, vals) ==
    [media_type |-> Some(media_type),
     dc_id |-> Some(vals[2]),
     document_id |-> Some(vals[3]),
     access_hash |-> Some(vals[4]),
     thumb_size |-> Some(vals[5])]

\* Variant of document_fields: the thumb size is filled in as for a photo.
document_fields_with_thumb(media_type, vals) ==
    [media_type |-> Some(media_type),
     dc_id |-> Some(vals[2]),
     document_id |-> Some(vals[3]),
     access_hash |-> Some(vals[4]),
     thumb_size |-> Some(0)]

\* lines 163-169: keyword arguments of the variant of tags 3, 4, 5, 8, 9, 10, 13
document_fields(media_type, vals) ==
    [media_type |-> Some(media_type),
     dc_id |-> Some(vals[2]),
     document_id |-> Some(vals[3]),
     access_hash |-> Some(vals[4])]

try_body(file_id_str, data) ==
    LET d == decode(file_id_str)
        decoded == d.bytes
        existing == get_existing_attributes(data)
        failed(t, m) == [exc |-> Exc(t, m), data |-> data]
    IN  IF ~d.ok THEN failed(d.exc, "")
        ELSE IF Len(decoded) = 0 THEN failed("IndexError", "")
        ELSE LET media_type == media_type_of(decoded)
             IN  IF media_type = 1
                 THEN LET u == unpack(<<"i", "i", "q", "q", "i", "b">>, decoded)
                      IN  IF ~u.ok THEN failed("struct.error", "")
                          ELSE [exc |-> NoExc,
                                data |-> FileData(Merge(existing,
                                            chat_photo_fields(media_type, u.vals)))]
                 ELSE IF media_type \in PhotoTags
                 THEN LET u == unpack(<<"i", "i", "q", "q", "c">>, decoded)
                      IN  IF ~u.ok THEN failed("struct.error", "")
                          ELSE IF ~Utf8Ok(u.vals[5]) THEN failed("UnicodeDecodeError", "")
                          ELSE [exc |-> NoExc,
                                data |-> FileData(Merge(existing,
                                            photo_fields(media_type, u.vals)))]
                 ELSE IF media_type \in DocumentTags
                 THEN LET u == unpack(<<"i", "i", "q", "q">>, decoded)
                      IN  IF ~u.ok THEN failed("struct.error", "")
                          ELSE [exc |-> NoExc,
                                data |-> FileData(Merge(existing,
                                            document_fields(media_type, u.vals)))]
                 ELSE failed("ValueError", "Unknown media type")

\* Variant of except_clause: the handler also catches ValueError.
except_clause_broad(exc) ==
    IF exc.type \in {"AssertionError", "binascii.Error", "struct.error", "ValueError"}
    THEN FileIdInvalid
    ELSE exc

\* lines 172-173: except (AssertionError, binascii.Error, struct.error)
except_clause(exc) ==
    IF exc.type \in {"AssertionError", "binascii.Error", "struct.error"}
    THEN FileIdInvalid
    ELSE exc

(***************************************************************************)
(* lines 175-209: destination directory and file name.                     *)
(***************************************************************************)
DEFAULT_DOWNLOAD_DIR == <<"downloads", "/">>
PARENT_DIR == <<"PARENT_DIR">>

LastSep(p) ==
    IF \E k \in DOMAIN p : p[k] = "/"
    THEN CHOOSE k \in DOMAIN p : p[k] = "/" /\ \A j \in (k + 1)..Len(p) : p[j] # "/"
    ELSE 0

RECURSIVE RStrip(_)
RStrip(p) == IF Len(p) > 0 /\ p[Len(p)] = "/" THEN RStrip(Take(p, Len(p) - 1)) ELSE p

\* os.path.split: <<head, tail>>
split(p) ==
    LET k == LastSep(p)
        head == Take(p, k)
    IN  <<IF Len(head) > 0 /\ (\E j \in DOMAIN head : head[j] # "/")
          THEN RStrip(head) ELSE head,
          Drop(p, k)>>

isabs(p) == Len(p) > 0 /\ p[1] = "/"

\* pathlib's parsing of a path string: the components, without the empty
\* ones (repeated or trailing separators) and without "."
IsPart(t) == t # "/" /\ t # "."

Parts(p) == SelectSeq(p, IsPart)

LeadingSeps(p) ==
    IF \E k \in DOMAIN p : p[k] # "/"
    THEN (CHOOSE k \in DOMAIN p : p[k] # "/" /\ \A j \in 1..(k - 1) : p[j] = "/") - 1
    ELSE Len(p)

\* the root pathlib keeps: "//" for exactly two leading separators, else "/"
Root(p) ==
    IF LeadingSeps(p) = 0 THEN <<>>
    ELSE IF LeadingSeps(p) = 2 THEN <<"/", "/">> ELSE <<"/">>

RECURSIVE JoinParts(_)
JoinParts(parts) ==
    IF Len(parts) = 0 THEN <<>>
    ELSE IF Len(parts) = 1 THEN <<parts[1]>>
    ELSE <<parts[1], "/">> \o JoinParts(Tail(parts))

\* pathlib: PARENT_DIR / other.  An absolute other replaces the base; the
\* result is normalised (root kept, separators collapsed, "." dropped).
PathJoin(base, other) ==
    IF isabs(other) THEN Root(other) \o JoinParts(Parts(other))
    ELSE IF Len(Parts(other)) = 0 THEN base
    ELSE base \o <<"/">> \o JoinParts(Parts(other))

\* x or y, for text
OrText(x, y) == IF Len(x) > 0 THEN x ELSE y

\* data.file_name as text operand of `or`: None and "" are both falsy
TextOrEmpty(o) == IF IsNone(o) THEN <<>> ELSE Val(o)

MEDIA_TYPE_ID(t) ==
    CASE t \in {0, 1, 2, 14} -> "photo"
      [] t \in {3, 9} -> "audio"
      [] t \in {4, 10, 13} -> "video"
      [] t = 5 -> "document"
      [] t = 8 -> "sticker"

guess_extension(mime_type) ==
    IF IsNone(mime_type) THEN None
    ELSE IF Val(mime_type) = "audio/x-known" THEN Some(".known") ELSE None

\* Variant of extension_for: the photo-like tags also prefer the MIME guess.
extension_for_guess_first(media_type, guessed_extension) ==
    LET guess_or(default) ==
            IF IsNone(guessed_extension) THEN default ELSE Val(guessed_extension)
    IN  IF media_type \in {0, 1, 2, 14} THEN guess_or(".jpg")
        ELSE IF media_type = 3 THEN guess_or(".ogg")
        ELSE IF media_type \in {4, 10, 13} THEN guess_or(".mp4")
        ELSE IF media_type = 5 THEN guess_or(".zip")
        ELSE IF media_type = 8 THEN guess_or(".webp")
        ELSE IF media_type = 9 THEN guess_or(".mp3")
        ELSE ".unknown"

\* lines 189-202
extension_for(media_type, guessed_extension) ==
    LET guess_or(default) ==
            IF IsNone(guessed_extension) THEN default ELSE Val(guessed_extension)
    IN  IF media_type \in {0, 1, 2, 14} THEN ".jpg"
        ELSE IF media_type = 3 THEN guess_or(".ogg")
        ELSE IF media_type \in {4, 10, 13} THEN guess_or(".mp4")
        ELSE IF media_type = 5 THEN guess_or(".zip")
        ELSE IF media_type = 8 THEN guess_or(".webp")
        ELSE IF media_type = 9 THEN guess_or(".mp3")
        ELSE ".unknown"

\* datetime.fromtimestamp(ts).strftime("%Y-%m-%d_%H-%M-%S")
strftime(ts) == CASE ts = 0 -> "stamp0" [] ts = 1 -> "stamp1" [] OTHER -> "stamp2"

\* data.date or time.time(): a timestamp of 0 is falsy
DateOr(date, now) == IF IsNone(date) \/ Val(date) = 0 THEN now ELSE Val(date)

\* lines 178-209: <<directory, file_name>>
target(file_name_arg, data, now, rnd) ==
    LET sp == split(file_name_arg)
        file_name == OrText(sp[2], TextOrEmpty(data.file_name))
        directory == IF ~isabs(file_name)
                     THEN PathJoin(PARENT_DIR, OrText(sp[1], DEFAULT_DOWNLOAD_DIR))
                     ELSE sp[1]
        media_type_str == MEDIA_TYPE_ID(Val(data.media_type))
    IN  IF Len(file_name) = 0
        THEN <<directory,
               <<media_type_str, "_", strftime(DateOr(data.date, now)), "_", rnd,
                 extension_for(Val(data.media_type), guess_extension(data.mime_type))>>>>
        ELSE <<directory, file_name>>

\* Variant of prepare: the request is put on the queue before the file id is
\* decoded, so a decoding failure is raised after the put.
prepare_put_first(a, now, rnd) ==
    LET sel == select_media(a.message)
        rd == read_media(sel.media)
        tb == try_body(rd.file_id_str, rd.data)
        tg == target(a.file_name, tb.data, now, rnd)
        nothing == [data |-> FileData(<<>>), directory |-> <<>>, file_name |-> <<>>,
                    progress |-> a.progress, progress_args |-> a.progress_args]
    IN  IF sel.exc # NoExc THEN [exc |-> sel.exc, put |-> FALSE, req |-> nothing]
        ELSE IF rd.exc # NoExc THEN [exc |-> rd.exc, put |-> FALSE, req |-> nothing]
        ELSE IF tb.exc # NoExc
        THEN [exc |-> except_clause(tb.exc), put |-> TRUE, req |-> nothing]
        ELSE [exc |-> NoExc, put |-> TRUE,
              req |-> [data |-> tb.data, directory |-> tg[1], file_name |-> tg[2],
                       progress |-> a.progress, progress_args |-> a.progress_args]]

(***************************************************************************)
(* The synchronous part of download_media, lines 92-211: the exception it  *)
(* raises, or the request tuple it passes to download_queue.put_nowait.    *)
(***************************************************************************)
prepare(a, now, rnd) ==
    LET sel == select_media(a.message)
        rd == read_media(sel.media)
        tb == try_body(rd.file_id_str, rd.data)
        tg == target(a.file_name, tb.data, now, rnd)
        nothing == [data |-> FileData(<<>>), directory |-> <<>>, file_name |-> <<>>,
                    progress |-> a.progress, progress_args |-> a.progress_args]
    IN  IF sel.exc # NoExc THEN [exc |-> sel.exc, put |-> FALSE, req |-> nothing]
        ELSE IF rd.exc # NoExc THEN [exc |-> rd.exc, put |-> FALSE, req |-> nothing]
        ELSE IF tb.exc # NoExc
        THEN [exc |-> except_clause(tb.exc), put |-> FALSE, req |-> nothing]
        ELSE [exc |-> NoExc, put |-> TRUE,
              req |-> [data |-> tb.data, directory |-> tg[1], file_name |-> tg[2],
                       progress |-> a.progress, progress_args |-> a.progress_args]]

(***************************************************************************)
(* lines 175-176 and 213-216: the completion plumbing.                     *)
(***************************************************************************)
\* Variant of new_event: one Event object shared by every call.
shared_event(heap) == IF Len(heap) = 0 THEN Len(heap) + 1 ELSE Len(heap)

\* line 175: asyncio.Event() is a new object, distinct from every other
new_event(heap) == Len(heap) + 1

\* line 176: [None] is a new list
new_slot(heap) == Len(heap) + 1

\* Variant of must_wait: the call waits whatever block is.
must_wait_always(block) == TRUE

\* line 213: the call suspends iff block is true
must_wait(block) == block

\* Variant of wait_over: the wait returns without the event being set.
wait_over_unset(is_set) == TRUE

\* line 214: Event.wait() completes once the event is set
wait_over(is_set) == is_set

\* Variant of return_value: the slot is not read.
return_value_absent(slot) == None

\* line 216: path[0]
return_value(slot) == slot

Calls == DOMAIN args

\* Lines 92-216 up to the suspension at `await done.wait()`.
download_media(i) ==
    /\ pc[i] = "start"
    /\ \E now \in {2}, rnd \in {"r1", "r2"} :
         LET p == prepare(args[i], now, rnd)
             e == new_event(events)
             s == new_slot(slots)
             events1 == IF e > Len(events) THEN Append(events, FALSE) ELSE events
             slots1 == IF s > Len(slots) THEN Append(slots, None)
                       ELSE [slots EXCEPT ![s] = None]
         IN  IF p.put
             THEN /\ events' = events1
                  /\ slots' = slots1
                  /\ reqs' = Append(reqs, [data |-> p.req.data,
                                           directory |-> p.req.directory,
                                           file_name |-> p.req.file_name,
                                           done |-> e,
                                           progress |-> p.req.progress,
                                           progress_args |-> p.req.progress_args,
                                           path |-> s])
                  /\ queue' = Append(queue, Len(reqs) + 1)
                  /\ wstate' = Append(wstate, "queued")
                  /\ puts' = [puts EXCEPT ![i] = @ + 1]
                  /\ local' = [local EXCEPT ![i] = [done |-> e, path |-> s]]
                  /\ IF p.exc # NoExc
                     THEN /\ pc' = [pc EXCEPT ![i] = "raised"]
                          /\ err' = [err EXCEPT ![i] = p.exc]
                          /\ UNCHANGED result
                     ELSE IF must_wait(args[i].block) /\ ~events1[e]
                     THEN /\ pc' = [pc EXCEPT ![i] = "waiting"]
                          /\ UNCHANGED <<err, result>>
                     ELSE /\ pc' = [pc EXCEPT ![i] = "returned"]
                          /\ result' = [result EXCEPT ![i] = return_value(slots1[s])]
                          /\ UNCHANGED err
             ELSE /\ pc' = [pc EXCEPT ![i] = "raised"]
                  /\ err' = [err EXCEPT ![i] = p.exc]
                  /\ UNCHANGED <<result, local, puts, events, slots, reqs, queue, wstate>>
    /\ UNCHANGED args

\* Lines 214-216: the call resumes from `await done.wait()` and returns.
done_wait(i) ==
    /\ pc[i] = "waiting"
    /\ wait_over(events[local[i].done])
    /\ pc' = [pc EXCEPT ![i] = "returned"]
    /\ result' = [result EXCEPT ![i] = return_value(slots[local[i].path])]
    /\ UNCHANGED <<args, err, local, puts, events, slots, reqs, queue, wstate>>

(***************************************************************************)
(* The external download worker: takes a request from the queue, writes    *)
(* the final path into the result slot at most once (or leaves it absent), *)
(* then raises the completion signal once.                                 *)
(***************************************************************************)
FinalPaths == {<<"/", "final", "one">>, <<"/", "final", "two">>}

WorkerGet ==
    /\ Len(queue) > 0
    /\ queue' = Tail(queue)
    /\ wstate' = [wstate EXCEPT ![Head(queue)] = "taken"]
    /\ UNCHANGED <<args, pc, err, result, local, puts, events, slots, reqs>>

WorkerWrite(r) ==
    /\ wstate[r] = "taken"
    /\ \E p \in FinalPaths : slots' = [slots EXCEPT ![reqs[r].path] = Some(p)]
    /\ wstate' = [wstate EXCEPT ![r] = "written"]
    /\ UNCHANGED <<args, pc, err, result, local, puts, events, reqs, queue>>

WorkerSet(r) ==
    /\ wstate[r] \in {"taken", "written"}
    /\ events' = [events EXCEPT ![reqs[r].done] = TRUE]
    /\ wstate' = [wstate EXCEPT ![r] = "finished"]
    /\ UNCHANGED <<args, pc, err, result, local, puts, slots, reqs, queue>>

(***************************************************************************)
(* Inputs.                                                                 *)
(***************************************************************************)
RecognizedTags == {1} \cup PhotoTags \cup DocumentTags

\* A 30-byte record: discriminant <<b0, up, 0, 0>>, dc_id 2, a second field
\* 123, a third field -2, then <<x, 0, 0, 0, last, 0>>.
Raw(b0, up, x, last) ==
    <<b0, up, 0, 0>> \o <<2, 0, 0, 0>> \o <<123, 0, 0, 0, 0, 0, 0, 0>>
    \o <<254, 255, 255, 255, 255, 255, 255, 255>> \o <<x, 0, 0, 0, last, 0>>

PayloadLengths == {0, 4, 24, 25, 29, 30}

Payloads ==
    {Take(Raw(b0, up, x, last), n) :
        b0 \in 0..MaxTag, up \in {0, 1}, x \in {7, 200}, last \in {0, 1},
        n \in PayloadLengths}

\* the exact-width payload of a recognized tag
ValidPayload(t) ==
    Take(Raw(t, 0, 109, 1), IF t = 1 THEN 29 ELSE IF t \in PhotoTags THEN 25 ELSE 24)

StrMedia(text) ==
    [isstr |-> TRUE, file_id |-> text, has_file_name |-> FALSE, file_name |-> None,
     file_size |-> None, mime_type |-> None, date |-> None]

MediaObject(text, has, name, mime, date) ==
    [isstr |-> FALSE, file_id |-> text, has_file_name |-> has, file_name |-> name,
     file_size |-> Some(1024), mime_type |-> mime, date |-> date]

NoAttrs == [k \in Range(available_media) |-> None]

Direct(m) == [kind |-> "media", media |-> Some(m), attrs |-> NoAttrs]

Nothing == [kind |-> "None", media |-> None, attrs |-> NoAttrs]

Message(attrs) == [kind |-> "Message", media |-> None, attrs |-> attrs]

Call(message, file_name, block) ==
    [message |-> message, file_name |-> file_name, block |-> block,
     progress |-> None, progress_args |-> <<>>]

FileIds ==
    {B64Text(b) : b \in Payloads}
    \cup {Append(B64Text(ValidPayload(t)), BadSymbol) : t \in {1, 2, 3}}
    \cup {<<BadSymbol>>, <<0>>, B64Text(ValidPayload(3)) \o <<0>>}

MediaNames == {<<FALSE, None>>, <<TRUE, None>>, <<TRUE, Some(<<"a.bin">>)>>,
               <<TRUE, Some(<<"/", "a.bin">>)>>}

MimeTypes == {None, Some("audio/x-known"), Some("application/x-odd")}

Dates == {None, Some(0), Some(1)}

CallerPaths ==
    {DEFAULT_DOWNLOAD_DIR, <<"dir", "/", "x.bin">>, <<>>, <<"/", "abs", "/">>,
     <<"/", "x.bin">>, <<"/">>, <<"a", "/", "/", "b", "/">>, <<".", "/", "d", "/">>}

StdMedia(t) == MediaObject(B64Text(ValidPayload(t)), TRUE, None, None, Some(1))

DecoderCalls == {Call(Direct(StrMedia(f)), DEFAULT_DOWNLOAD_DIR, TRUE) : f \in FileIds}

AssemblerCalls ==
    {Call(Direct(MediaObject(B64Text(ValidPayload(t)), n[1], n[2], m, d)), p, TRUE) :
        t \in RecognizedTags, n \in MediaNames, m \in MimeTypes, d \in Dates,
        p \in CallerPaths}

ReferenceCalls ==
    {Call(r, DEFAULT_DOWNLOAD_DIR, b) :
        r \in {Nothing, Message(NoAttrs),
               Message([NoAttrs EXCEPT !["audio"] = Some(StdMedia(9)),
                                       !["video"] = Some(StdMedia(4))])}
              \cup {Message([NoAttrs EXCEPT ![k] = Some(StdMedia(5))]) :
                        k \in Range(available_media)},
        b \in BOOLEAN}

AllCalls == DecoderCalls \cup AssemblerCalls \cup ReferenceCalls

ConcurrentCalls ==
    {Call(Direct(MediaObject(f, TRUE, Some(<<"a.bin">>), None, None)),
          DEFAULT_DOWNLOAD_DIR, b) :
        f \in {B64Text(ValidPayload(5)), <<BadSymbol>>}, b \in BOOLEAN}

(***************************************************************************)
(* Specifications.  Spec: one call over the whole input family.  SpecConc: *)
(* NumCalls calls in flight together with the worker.                      *)
(***************************************************************************)
InitWith(a) ==
    /\ args = a
    /\ pc = [i \in DOMAIN a |-> "start"]
    /\ err = [i \in DOMAIN a |-> NoExc]
    /\ result = [i \in DOMAIN a |-> None]
    /\ local = [i \in DOMAIN a |-> [done |-> 0, path |-> 0]]
    /\ puts = [i \in DOMAIN a |-> 0]
    /\ events = <<>>
    /\ slots = <<>>
    /\ reqs = <<>>
    /\ queue = <<>>
    /\ wstate = <<>>

Init == \E a \in AllCalls : InitWith(<<a>>)

InitConc == \E a \in [1..NumCalls -> ConcurrentCalls] : InitWith(a)

Next ==
    \/ \E i \in Calls : download_media(i)
    \/ \E i \in Calls : done_wait(i)
    \/ WorkerGet
    \/ \E r \in DOMAIN reqs : WorkerWrite(r)
    \/ \E r \in DOMAIN reqs : WorkerSet(r)

Spec == Init /\ [][Next]_vars

SpecConc == InitConc /\ [][Next]_vars

(***************************************************************************)
(* Vocabulary of the properties.                                           *)
(***************************************************************************)
\* the call has run its synchronous part
Ran(i) == pc[i] # "start"

\* the call designates a file id (a string, or a media object carrying one)
HasId(i) ==
    /\ select_media(args[i].message).exc = NoExc
    /\ ~IsNone(select_media(args[i].message).media)

IdOf(i) == Val(select_media(args[i].message).media).file_id

TextOk(i) == decode(IdOf(i)).ok

PayloadOf(i) == decode(IdOf(i)).bytes

\* the 4-byte little-endian discriminant of a payload of at least 4 bytes
Discriminant(b) == SignedLE(Take(b, 4))

\* the byte count the variant of a recognized tag expects
ExpectedWidth(t) == IF t = 1 THEN 29 ELSE IF t \in PhotoTags THEN 25 ELSE 24

\* the request the call enqueued
ReqOf(i) == CHOOSE r \in DOMAIN reqs : reqs[r].done = local[i].done

UnknownMediaType == Exc("ValueError", "Unknown media type")
NoDownloadableMedia == Exc("ValueError", error_message)

\* C1: a blocking call that was dispatched and has returned returns exactly the
\* content of its request's result slot as the worker left it before raising
\* the completion signal (a path, or None), and a call that has enqueued its
\* request never ends in an error.
BlockingReturnsSlot ==
    \A i \in Calls :
        /\ (args[i].block /\ pc[i] = "returned") =>
              /\ events[local[i].done]
              /\ wstate[ReqOf(i)] = "finished"
              /\ result[i] = slots[local[i].path]
              /\ err[i] = NoExc
        /\ puts[i] > 0 => pc[i] # "raised"

BlockingReturnsSlotWitness ==
    \E i, j \in Calls :
        /\ args[i].block /\ pc[i] = "returned" /\ result[i] = Some(<<"/", "final", "one">>)
        /\ args[j].block /\ pc[j] = "returned" /\ result[j] = None
        /\ events[local[j].done]

\* C2: a non-blocking call that reaches dispatch has returned None as soon as
\* its synchronous part has run, whatever the worker has done or does later.
NonBlockingReturnsNone ==
    \A i \in Calls :
        (~args[i].block /\ Ran(i) /\ err[i] = NoExc) =>
            /\ pc[i] = "returned"
            /\ result[i] = None
            /\ puts[i] = 1

NonBlockingReturnsNoneWitness ==
    \E i, j \in Calls :
        /\ ~args[i].block /\ pc[i] = "returned" /\ result[i] = None
        /\ wstate[ReqOf(i)] = "finished" /\ ~IsNone(slots[local[i].path])
        /\ ~args[j].block /\ pc[j] = "returned" /\ wstate[ReqOf(j)] = "queued"

\* C3 as stated: a payload whose 4-byte little-endian discriminant is not a
\* recognized tag makes the call fail with FileIdInvalid.
UnrecognizedDiscriminantIsFileIdInvalid ==
    \A i \in Calls :
        (Ran(i) /\ HasId(i) /\ TextOk(i) /\ Len(PayloadOf(i)) >= 4
         /\ Discriminant(PayloadOf(i)) \notin RecognizedTags)
            => (pc[i] = "raised" /\ err[i] = FileIdInvalid)

\* C3 amended: the variant is selected by the first payload byte alone.  A
\* first byte outside the recognized set makes the call raise
\* ValueError("Unknown media type") (not FileIdInvalid) with nothing
\* enqueued; a recognized first byte with the exact width of its variant (and
\* an ASCII thumb size byte for tags 0, 2, 14) is dispatched whatever the
\* upper three bytes of the discriminant are.
FirstByteSelectsVariant ==
    \A i \in Calls :
        (Ran(i) /\ HasId(i) /\ TextOk(i) /\ Len(PayloadOf(i)) >= 1) =>
            LET b == PayloadOf(i) IN
            /\ b[1] \notin RecognizedTags =>
                  (pc[i] = "raised" /\ err[i] = UnknownMediaType /\ puts[i] = 0)
            /\ (b[1] \in RecognizedTags /\ Len(b) = ExpectedWidth(b[1])
                /\ (b[1] \in PhotoTags => Utf8Ok(b[25]))) =>
                  (err[i] = NoExc /\ puts[i] = 1
                   /\ reqs[ReqOf(i)].data.media_type = Some(b[1]))

FirstByteSelectsVariantWitness ==
    \E i \in Calls :
        /\ Ran(i) /\ HasId(i) /\ TextOk(i) /\ Len(PayloadOf(i)) = 24
        /\ Discriminant(PayloadOf(i)) = 259
        /\ err[i] = NoExc /\ puts[i] = 1

\* C4 as stated: a reference with none of the known media kinds (a Message
\* with every kind absent, or a reference that is nothing) makes the call
\* fail with ValueError(error_message), and the queue receives nothing.
NoMediaIsValueError ==
    \A i \in Calls :
        (Ran(i) /\ (args[i].message.kind = "None"
                    \/ (args[i].message.kind = "Message"
                        /\ args[i].message.attrs = NoAttrs)))
            => (pc[i] = "raised" /\ err[i] = NoDownloadableMedia
                /\ puts[i] = 0 /\ reqs = <<>>)

\* C5 as stated: a file id that is not valid text, or whose payload is empty
\* or has a recognized tag with another length than its variant's width,
\* makes the call fail with FileIdInvalid.
BadTextOrLengthIsFileIdInvalid ==
    \A i \in Calls :
        (Ran(i) /\ HasId(i)
         /\ \/ ~TextOk(i)
            \/ Len(PayloadOf(i)) = 0
            \/ /\ PayloadOf(i)[1] \in RecognizedTags
               /\ Len(PayloadOf(i)) # ExpectedWidth(PayloadOf(i)[1]))
            => (pc[i] = "raised" /\ err[i] = FileIdInvalid)

\* C6: a call that ends in an error has put nothing on the queue (the step in
\* which it raises leaves the queue and the set of requests unchanged), and a
\* call that did not raise has put exactly one request.
ErrorsLeaveQueueUnchanged ==
    /\ [](\A i \in Calls :
            /\ pc[i] = "raised" => puts[i] = 0
            /\ pc[i] \in {"waiting", "returned"} => puts[i] = 1
            /\ Cardinality({r \in DOMAIN reqs : reqs[r].done = local[i].done})
                  = puts[i])
    /\ [][\A i \in Calls :
            (pc[i] = "start" /\ pc'[i] = "raised") => (queue' = queue /\ reqs' = reqs)]_vars

ErrorsLeaveQueueUnchangedWitness ==
    \E i \in Calls :
        /\ pc[i] = "raised" /\ err[i] = FileIdInvalid
        /\ HasId(i) /\ TextOk(i) /\ Len(PayloadOf(i)) = 30
        /\ queue = <<>> /\ reqs = <<>>

\* the calls whose file name is synthesized: no file-name part in the caller's
\* path and no file name in the media metadata
Synthesized(i) ==
    /\ puts[i] = 1
    /\ Len(split(args[i].file_name)[2]) = 0
    /\ Len(TextOrEmpty(reqs[ReqOf(i)].data.file_name)) = 0

ExtensionOf(i) == reqs[ReqOf(i)].file_name[Len(reqs[ReqOf(i)].file_name)]

TagOf(i) == Val(reqs[ReqOf(i)].data.media_type)

GuessOf(i) == guess_extension(reqs[ReqOf(i)].data.mime_type)

ClaimedDefault(t) ==
    CASE t \in {0, 1, 2, 14} -> ".jpg"
      [] t \in {3, 9} -> ".ogg"
      [] t \in {4, 10, 13} -> ".mp4"
      [] t = 5 -> ".zip"
      [] t = 8 -> ".webp"
      [] OTHER -> ".unknown"

\* C7 as stated: for every tag group, the photo-like one included, the
\* synthesized extension is the MIME guess when there is one, else the
\* default of the group.
GuessFirstInEveryGroup ==
    \A i \in Calls :
        Synthesized(i) =>
            ExtensionOf(i) = IF IsNone(GuessOf(i)) THEN ClaimedDefault(TagOf(i))
                             ELSE Val(GuessOf(i))

\* C7 amended: tags 0, 1, 2, 14 always get ".jpg", whether or not the MIME
\* guess succeeds; the other tags get the MIME guess when it succeeds, else
\* ".ogg" (3), ".mp4" (4, 10, 13), ".zip" (5), ".webp" (8), ".mp3" (9);
\* ".unknown" never appears in an enqueued request.
PhotoAlwaysJpgOthersGuessFirst ==
    \A i \in Calls :
        Synthesized(i) =>
            LET t == TagOf(i)
                x == ExtensionOf(i)
                g == GuessOf(i)
            IN  /\ t \in {0, 1, 2, 14} => x = ".jpg"
                /\ (t \notin {0, 1, 2, 14} /\ ~IsNone(g)) => x = Val(g)
                /\ (t \notin {0, 1, 2, 14} /\ IsNone(g)) =>
                      x = (CASE t = 3 -> ".ogg"
                             [] t \in {4, 10, 13} -> ".mp4"
                             [] t = 5 -> ".zip"
                             [] t = 8 -> ".webp"
                             [] t = 9 -> ".mp3")
                /\ x # ".unknown"

PhotoAlwaysJpgOthersGuessFirstWitness ==
    \E i \in Calls :
        /\ Synthesized(i) /\ TagOf(i) = 2 /\ ~IsNone(GuessOf(i))
        /\ ExtensionOf(i) = ".jpg"

VariantFields ==
    {"dc_id", "document_id", "access_hash", "thumb_size", "peer_id", "volume_id",
     "local_id", "is_big"}

Populated(data) == {f \in VariantFields : ~IsNone(data[f])}

\* C8: every enqueued descriptor has exactly the fields of the variant its tag
\* selects populated, and every other variant field absent.
ExactlyOneVariant ==
    \A r \in DOMAIN reqs :
        LET data == reqs[r].data
            t == Val(data.media_type)
        IN  /\ ~IsNone(data.media_type)
            /\ t \in RecognizedTags
            /\ t = 1 => Populated(data)
                          = {"dc_id", "peer_id", "volume_id", "local_id", "is_big"}
            /\ t \in PhotoTags => Populated(data)
                          = {"dc_id", "document_id", "access_hash", "thumb_size"}
            /\ t \in DocumentTags => Populated(data)
                          = {"dc_id", "document_id", "access_hash"}

ExactlyOneVariantWitness ==
    \E r \in DOMAIN reqs :
        /\ reqs[r].data.media_type = Some(1)
        /\ reqs[r].data.dc_id = Some(2)
        /\ reqs[r].data.peer_id = Some(123)
        /\ reqs[r].data.volume_id = Some(0 - 2)
        /\ reqs[r].data.local_id = Some(7)
        /\ reqs[r].data.is_big = Some(TRUE)
        /\ IsNone(reqs[r].data.document_id)

\* C9: the requests in flight have pairwise distinct completion signals and
\* result slots, each created unset and absent by its call, and a worker step
\* on one request leaves the signal, the slot, the position and the result of
\* every other call unchanged.
RequestsIndependent ==
    /\ [](\A r1, r2 \in DOMAIN reqs :
            r1 # r2 => (reqs[r1].done # reqs[r2].done /\ reqs[r1].path # reqs[r2].path))
    /\ [][\A i \in Calls :
            (pc[i] = "start" /\ puts'[i] = 1) =>
                /\ local'[i].done \notin DOMAIN events
                /\ local'[i].path \notin DOMAIN slots
                /\ ~events'[local'[i].done]
                /\ IsNone(slots'[local'[i].path])]_vars
    /\ [][\A r \in DOMAIN reqs :
            wstate'[r] # wstate[r] =>
                \A j \in Calls :
                    (puts[j] = 1 /\ ReqOf(j) # r) =>
                        /\ pc'[j] = pc[j]
                        /\ result'[j] = result[j]
                        /\ events'[local[j].done] = events[local[j].done]
                        /\ slots'[local[j].path] = slots[local[j].path]]_vars

RequestsIndependentWitness ==
    \E i, j \in Calls :
        /\ args[i].block /\ pc[i] = "returned" /\ ~IsNone(result[i])
        /\ args[j].block /\ pc[j] = "waiting"
        /\ ~events[local[j].done] /\ IsNone(slots[local[j].path])
        /\ ReqOf(i) > ReqOf(j)

\* C10: a blocking call leaves its wait only when the completion signal of its
\* own request is set; the wait is the only place where it is suspended; and no
\* step of a call sets a signal or writes a slot that already exists.
BlockingWaitsForOwnSignal ==
    /\ [][\A i \in Calls :
            (args[i].block /\ puts'[i] = 1 /\ pc[i] # "returned" /\ pc'[i] = "returned")
                => (pc[i] = "waiting" /\ events[local[i].done])]_vars
    /\ [][\A i \in Calls :
            pc'[i] # pc[i] =>
                /\ \A e \in DOMAIN events : events'[e] = events[e]
                /\ \A s \in DOMAIN slots : slots'[s] = slots[s]]_vars
    /\ [](\A i \in Calls : (pc[i] = "waiting") => (args[i].block /\ puts[i] = 1))

BlockingWaitsForOwnSignalWitness ==
    \E i, j \in Calls :
        /\ args[i].block /\ pc[i] = "returned" /\ events[local[i].done]
        /\ args[j].block /\ pc[j] = "waiting" /\ ~events[local[j].done]
        /\ wstate[ReqOf(j)] = "written"
====
